---- MODULE Spec2Model ----
(***************************************************************************)
(* A model of the ATC Risk Tool front end (App.tsx): the conflict detector *)
(* over projected tracks, the alert synthesis of one tick, and the tick    *)
(* engine (load / loadDvr / live poll -> recompute) with its re-entrancy   *)
(* guard and the conflict selection that persists across ticks.            *)
(*                                                                         *)
(* Units.  Positions lie on the meridian of DEFAULT_CENTER; a latitude is  *)
(* an integer number of arc-minutes north of DEFAULT_CENTER and every      *)
(* longitude is 0 (the centre's own).  On one meridian the haversine       *)
(* formula reduces to R * |dlat|, so haversineNm is exact there; it is     *)
(* returned in thousandths of a nautical mile.  A midpoint (x + y) / 2 is  *)
(* kept doubled (x + y) so that it stays an integer.  Aircraft ids are     *)
(* integers, ordered as the id strings are.  An optional value (null or    *)
(* undefined in the source) is the empty set, a present value v is {v}.    *)
(***************************************************************************)
EXTENDS Integers, Sequences, FiniteSets, TLC

VARIABLES
    \* ---- conflict detector, applied to a drawn input -------------------
    dTracks,      \* the ProjectedTrack[] handed to detectSeparationConflicts
    dConflicts,   \* the Conflict[] it returned
    dDone,        \* whether it has been applied
    \* ---- App: React state and refs ------------------------------------
    aircraft,        \* AircraftState[]
    tracks,          \* ProjectedTrack[]
    trails,          \* Trail[]
    history,         \* historyRef: id -> buffered TrailPoints
    weatherTimeISO,  \* {} or {time bucket, ms}
    alerts,          \* Alert[]
    selected,        \* {} or {Conflict}
    minSeverity,
    enabledTypes,
    err,             \* {} or {message}
    loading,
    inFlight,        \* the re-entrancy guard
    mode,            \* demo, live, replay or dvr
    selectedAlertId, \* {} or {id of an Alert}
    \* ---- the environment ----------------------------------------------
    now,             \* Date.now(), ms
    runs,            \* the invocations of load / loadDvr / the live poll that have not returned
    airspace,        \* the traffic the snapshot sources report: quiet or crowded
    \* ---- history variables of the model -------------------------------
    nTicks,          \* ticks started so far
    fresh,           \* which exposed sets the most recently started tick has written
    dropped,         \* a request was dropped since the last step of a tick
    published,       \* {} or {what the tick that last set alerts was given}
    selHow           \* how the selection came about: none, kept, fallback or user

detectVars == <<dTracks, dConflicts, dDone>>

appVars == <<aircraft, tracks, trails, history, weatherTimeISO, alerts, selected,
             minSeverity, enabledTypes, err, loading, inFlight>>

uiVars == <<mode, selectedAlertId>>

envVars == <<now, runs, airspace>>

ghostVars == <<nTicks, fresh, dropped, published, selHow>>

----------------------------------------------------------------------------
\* Generic helpers

Abs(x) == IF x < 0 THEN -x ELSE x

Min2(x, y) == IF x < y THEN x ELSE y

\* `o ?? d` for an optional o
OrElse(o, d) == IF o = {} THEN d ELSE CHOOSE x \in o : TRUE

Range(s) == {s[i] : i \in DOMAIN s}

RECURSIVE FlattenSeq(_)
FlattenSeq(ss) == IF ss = <<>> THEN <<>> ELSE Head(ss) \o FlattenSeq(Tail(ss))

\* the numbers of S as an ascending sequence
Ascending(S) ==
    [n \in 1..Cardinality(S) |-> CHOOSE x \in S : Cardinality({y \in S : y <= x}) = n]

\* Array.prototype.filter: the elements of s at the indices of Keep, in order
FilterAt(s, Keep) ==
    LET idx == Ascending(Keep) IN [n \in 1..Len(idx) |-> s[idx[n]]]

----------------------------------------------------------------------------
\* Geometry

\* length of one arc-minute of a meridian, in millimetres: R * pi / 10800 with
\* R = 6371000 m
ArcMinuteMm == 1853249

MetersPerNm == 1852

\* haversineNm, in thousandths of a NM, for two points of one meridian
haversineNm(lat1, lon1, lat2, lon2) ==
    (Abs(lat2 - lat1) * ArcMinuteMm) \div MetersPerNm

\* a length in NM as thousandths of a NM
Nm(x) == x * 1000

----------------------------------------------------------------------------
\* detectSeparationConflicts

H_NM == 5
V_FT == 1000
DefaultStepS == 60

\* the id of every track, a repeated id repeated
TrackIds_All(trks) == [n \in 1..Len(trks) |-> trks[n].id]

\* byId = new Map(tracks.map(t => [t.id, t])): keys in order of first
\* insertion, the value of a key is the last track carrying it
TrackIds(trks) ==
    LET first == {i \in DOMAIN trks :
                     \A j \in 1..(i - 1) : trks[j].id # trks[i].id}
        kept == FilterAt(trks, first)
    IN [n \in 1..Len(kept) |-> kept[n].id]

ById(trks, id) ==
    LET last == CHOOSE i \in DOMAIN trks :
                    /\ trks[i].id = id
                    /\ \A j \in (i + 1)..Len(trks) : trks[j].id # id
    IN trks[last]

\* (p1?.t_s ?? 0) - (p0?.t_s ?? 0), kept when positive, else 60
stepSeconds(t) ==
    LET t0 == IF Len(t.points) >= 1 THEN OrElse(t.points[1].t_s, 0) ELSE 0
        t1 == IF Len(t.points) >= 2 THEN OrElse(t.points[2].t_s, 0) ELSE 0
        dt == t1 - t0
    IN IF dt > 0 THEN dt ELSE DefaultStepS

\* the larger of the two steps
PairStep_Larger(a, b) ==
    IF stepSeconds(a) > stepSeconds(b) THEN stepSeconds(a) ELSE stepSeconds(b)

\* const dt = Math.min(stepSeconds(a), stepSeconds(b))
PairStep(a, b) == Min2(stepSeconds(a), stepSeconds(b))

\* a breach of either threshold alone
IsBreach_Either(h, v, H, V) == h < Nm(H) \/ v < V

\* the breach test of the walk: h < H_NM && v < V_FT
IsBreach(h, v, H, V) == h < Nm(H) /\ v < V

\* the walk with the minimum moved to the last index on ties (h <= minH)
WalkStep_LastTie(a, b, k, acc, H, V) ==
    LET pa == a.points[k + 1]
        pb == b.points[k + 1]
        h == haversineNm(pa.lat, pa.lon, pb.lat, pb.lon)
        v == Abs(OrElse(pa.alt_ft, 0) - OrElse(pb.alt_ft, 0))
        acc1 == IF acc.minH = {} \/ h <= OrElse(acc.minH, 0)
                THEN [acc EXCEPT !.minH = {h}, !.minV = {v}, !.minIdx = k]
                ELSE acc
    IN IF acc1.firstBreachIdx = {} /\ IsBreach(h, v, H, V)
       THEN [acc1 EXCEPT !.firstBreachIdx = {k}]
       ELSE acc1

\* one iteration of the walk at source index k (0-based); acc holds minH, minV,
\* minIdx, firstBreachIdx (minH = {} stands for +Infinity)
WalkStep(a, b, k, acc, H, V) ==
    LET pa == a.points[k + 1]
        pb == b.points[k + 1]
        h == haversineNm(pa.lat, pa.lon, pb.lat, pb.lon)
        v == Abs(OrElse(pa.alt_ft, 0) - OrElse(pb.alt_ft, 0))
        acc1 == IF acc.minH = {} \/ h < OrElse(acc.minH, 0)
                THEN [acc EXCEPT !.minH = {h}, !.minV = {v}, !.minIdx = k]
                ELSE acc
    IN IF acc1.firstBreachIdx = {} /\ IsBreach(h, v, H, V)
       THEN [acc1 EXCEPT !.firstBreachIdx = {k}]
       ELSE acc1

RECURSIVE Walk(_, _, _, _, _, _, _)
Walk(a, b, n, k, acc, H, V) ==
    IF k >= n THEN acc
    ELSE Walk(a, b, n, k + 1, WalkStep(a, b, k, acc, H, V), H, V)

\* the body of the pair loop: <<>> when the pair is skipped, else <<Conflict>>
PairConflict(a, b, H, V) ==
    LET n == Min2(Len(a.points), Len(b.points))
    IN IF n < 2 THEN <<>>
       ELSE
         LET dt == PairStep(a, b)
             w == Walk(a, b, n, 0,
                       [minH |-> {}, minV |-> {}, minIdx |-> 0, firstBreachIdx |-> {}],
                       H, V)
         IN IF w.firstBreachIdx = {} THEN <<>>
            ELSE << [ a_id |-> a.id,
                      b_id |-> b.id,
                      cpa_lat_x2 |-> a.points[w.minIdx + 1].lat + b.points[w.minIdx + 1].lat,
                      cpa_lon_x2 |-> a.points[w.minIdx + 1].lon + b.points[w.minIdx + 1].lon,
                      first_breach_s |-> OrElse(w.firstBreachIdx, 0) * dt,
                      min_h_nm |-> OrElse(w.minH, 0),
                      min_v_ft |-> OrElse(w.minV, 0) ] >>

\* the conflicts in the order the two nested loops push them
PushedConflicts(trks, H, V) ==
    LET ids == TrackIds(trks)
        row(i) == FlattenSeq([d \in 1..(Len(ids) - i) |->
                     PairConflict(ById(trks, ids[i]), ById(trks, ids[i + d]), H, V)])
    IN FlattenSeq([i \in 1..Len(ids) |-> row(i)])

\* insert c into the sorted s behind every element that does not sort after it
InsertByBreach(c, s) ==
    LET p == Cardinality({i \in DOMAIN s : s[i].first_breach_s <= c.first_breach_s})
    IN SubSeq(s, 1, p) \o <<c>> \o SubSeq(s, p + 1, Len(s))

RECURSIVE SortByBreach(_)
\* conflicts.sort((x, y) => x.first_breach_s - y.first_breach_s), a stable sort
SortByBreach(s) ==
    IF s = <<>> THEN <<>>
    ELSE InsertByBreach(s[Len(s)], SortByBreach(SubSeq(s, 1, Len(s) - 1)))

\* the conflicts returned as pushed, unsorted
detectSeparationConflicts_Unsorted(trks, H, V) == PushedConflicts(trks, H, V)

detectSeparationConflicts(trks, H, V) == SortByBreach(PushedConflicts(trks, H, V))

\* ProjectedPoint and ProjectedTrack
Pt(lat, alt, t) == [lat |-> lat, lon |-> 0, alt_ft |-> alt, t_s |-> t]

\* a track whose k-th point (0-based) has the position pos[k + 1] and, when a
\* sample step dt is given, the relative time k * dt
Trk(id, pos, dt) ==
    [id |-> id,
     points |-> [k \in 1..Len(pos) |->
                    Pt(pos[k][1], pos[k][2],
                       IF dt = {} THEN {} ELSE {(k - 1) * OrElse(dt, 0)})]]

----------------------------------------------------------------------------
\* Alert synthesis.  An Alert is [id, type, severity, involvedAircraftIds,
\* lat_x2, lon_x2, time_s, data]; data is {} or {conflict}.  The title and the
\* details strings, which nothing reads back, are left out.

\* JavaScript's % (the sign of the dividend)
JsRem(a, n) == IF a >= 0 THEN a % n ELSE -((-a) % n)

\* Math.floor(a / n) for n > 0
FloorDiv(a, n) == a \div n

\* the difference taken as it is, not wrapped
normDeg_Unwrapped(d) == d

normDeg(d) ==
    LET x == JsRem(JsRem(d, 360) + 360, 360)
    IN IF x > 180 THEN x - 360 ELSE x

\* roundToMinutesISO: the instant the ISO string names, in ms
roundToMinutesISO(tsMs, minutes) ==
    LET m == minutes * 60 * 1000 IN FloorDiv(tsMs, m) * m

\* DEFAULT_CENTER, in the model's coordinates
CenterLat == 0
CenterLon == 0

TimeS(nowMs) == FloorDiv(nowMs, 1000)

\* conflictKey: the two ids, smaller first
conflictKey(c) == IF c.a_id < c.b_id THEN <<c.a_id, c.b_id>> ELSE <<c.b_id, c.a_id>>

sameConflict(a, b) == conflictKey(a) = conflictKey(b)

\* the loop that looks at climbs only
VerticalAlerts_ClimbsOnly(ac, nowMs) ==
    LET hit == {i \in DOMAIN ac : ~(OrElse(ac[i].vr_fpm, 0) < 1500)}
        kept == FilterAt(ac, hit)
    IN [n \in 1..Len(kept) |->
          [id |-> <<"local-vertical", kept[n].id, TimeS(nowMs)>>,
           type |-> "vertical",
           severity |-> IF OrElse(kept[n].vr_fpm, 0) >= 2500 THEN "warning" ELSE "caution",
           involvedAircraftIds |-> <<kept[n].id>>,
           lat_x2 |-> 2 * kept[n].lat,
           lon_x2 |-> 2 * kept[n].lon,
           time_s |-> TimeS(nowMs),
           data |-> {}]]

\* the vertical-profile loop
VerticalAlerts(ac, nowMs) ==
    LET absVr(a) == Abs(OrElse(a.vr_fpm, 0))
        hit == {i \in DOMAIN ac : ~(absVr(ac[i]) < 1500)}
        kept == FilterAt(ac, hit)
    IN [n \in 1..Len(kept) |->
          [id |-> <<"local-vertical", kept[n].id, TimeS(nowMs)>>,
           type |-> "vertical",
           severity |-> IF absVr(kept[n]) >= 2500 THEN "warning" ELSE "caution",
           involvedAircraftIds |-> <<kept[n].id>>,
           lat_x2 |-> 2 * kept[n].lat,
           lon_x2 |-> 2 * kept[n].lon,
           time_s |-> TimeS(nowMs),
           data |-> {}]]

\* the congestion block with the threshold one aircraft higher
CongestionAlerts_Above(ac, nowMs) ==
    LET within == FilterAt(ac, {i \in DOMAIN ac :
                      haversineNm(CenterLat, CenterLon, ac[i].lat, ac[i].lon) <= Nm(20)})
    IN IF Len(within) > 10
       THEN << [id |-> <<"local-congestion", TimeS(nowMs)>>,
                type |-> "congestion",
                severity |-> IF Len(within) >= 15 THEN "warning" ELSE "caution",
                involvedAircraftIds |-> [n \in 1..Len(within) |-> within[n].id],
                lat_x2 |-> 2 * CenterLat,
                lon_x2 |-> 2 * CenterLon,
                time_s |-> TimeS(nowMs),
                data |-> {}] >>
       ELSE <<>>

\* the congestion block
CongestionAlerts(ac, nowMs) ==
    LET within == FilterAt(ac, {i \in DOMAIN ac :
                      haversineNm(CenterLat, CenterLon, ac[i].lat, ac[i].lon) <= Nm(20)})
    IN IF Len(within) >= 10
       THEN << [id |-> <<"local-congestion", TimeS(nowMs)>>,
                type |-> "congestion",
                severity |-> IF Len(within) >= 15 THEN "warning" ELSE "caution",
                involvedAircraftIds |-> [n \in 1..Len(within) |-> within[n].id],
                lat_x2 |-> 2 * CenterLat,
                lon_x2 |-> 2 * CenterLon,
                time_s |-> TimeS(nowMs),
                data |-> {}] >>
       ELSE <<>>

\* the body of the wake pair loop: <<>> or <<Alert>>
WakePair(A, B, nowMs) ==
    LET d == haversineNm(A.lat, A.lon, B.lat, B.lon)
        dv == Abs(A.alt_ft - B.alt_ft)
        dh == Abs(normDeg(OrElse(A.track_deg, 0) - OrElse(B.track_deg, 0)))
    IN IF d > Nm(2) \/ dv > 700 THEN <<>>
       ELSE IF dh > 25 THEN <<>>
       ELSE << [id |-> <<"local-wake", A.id, B.id, TimeS(nowMs)>>,
                type |-> "wake",
                severity |-> IF d < Nm(1) /\ dv < 400 THEN "warning" ELSE "caution",
                involvedAircraftIds |-> <<A.id, B.id>>,
                lat_x2 |-> A.lat + B.lat,
                lon_x2 |-> A.lon + B.lon,
                time_s |-> TimeS(nowMs),
                data |-> {}] >>

WakeAlerts(ac, nowMs) ==
    LET row(i) == FlattenSeq([d \in 1..(Len(ac) - i) |-> WakePair(ac[i], ac[i + d], nowMs)])
    IN FlattenSeq([i \in 1..Len(ac) |-> row(i)])

buildLocalAlerts(ac, nowMs) ==
    VerticalAlerts(ac, nowMs) \o CongestionAlerts(ac, nowMs) \o WakeAlerts(ac, nowMs)

\* sepConflicts.map(c => ...) of recompute
SepAlert(c, timeMs) ==
    [id |-> <<"sep", conflictKey(c), TimeS(timeMs)>>,
     type |-> "separation",
     severity |-> IF c.first_breach_s < 180 THEN "warning"
                  ELSE IF c.first_breach_s < 420 THEN "caution" ELSE "info",
     involvedAircraftIds |-> <<c.a_id, c.b_id>>,
     lat_x2 |-> c.cpa_lat_x2,
     lon_x2 |-> c.cpa_lon_x2,
     time_s |-> TimeS(timeMs),
     data |-> {c}]

SepAlerts(sepConflicts, timeMs) ==
    [n \in 1..Len(sepConflicts) |-> SepAlert(sepConflicts[n], timeMs)]

\* every aircraft within 120 NM a candidate
WeatherCandidates_Uncapped(ac) ==
    FilterAt(ac, {i \in DOMAIN ac :
                    haversineNm(CenterLat, CenterLon, ac[i].lat, ac[i].lon) <= Nm(120)})

\* buildWeatherAlerts: the candidates, at most 30 of the aircraft within 120 NM
WeatherCandidates(ac) ==
    LET near == FilterAt(ac, {i \in DOMAIN ac :
                    haversineNm(CenterLat, CenterLon, ac[i].lat, ac[i].lon) <= Nm(120)})
    IN SubSeq(near, 1, Min2(Len(near), 30))

\* the body of the sampling loop for the value v that geometRadarValue gave
\* (v = {} is null): <<>> or <<Alert>>
WeatherAlertFor(a, v, timeMs) ==
    IF v = {} THEN <<>>
    ELSE IF OrElse(v, 0) <= 0 THEN <<>>
    ELSE << [id |-> <<"wx", a.id, TimeS(timeMs)>>,
             type |-> "weather",
             severity |-> IF OrElse(v, 0) >= 30 THEN "warning"
                          ELSE IF OrElse(v, 0) >= 15 THEN "caution" ELSE "info",
             involvedAircraftIds |-> <<a.id>>,
             lat_x2 |-> 2 * a.lat,
             lon_x2 |-> 2 * a.lon,
             time_s |-> TimeS(timeMs),
             data |-> {}] >>

\* filtering
severityRank(sev) == CASE sev = "info" -> 0 [] sev = "caution" -> 1 [] sev = "warning" -> 2

\* the filter that ignores the minimum severity
filterAlerts_TypeOnly(as, enabled, minSev) ==
    FilterAt(as, {i \in DOMAIN as : enabled[as[i].type]})

filterAlerts(as, enabled, minSev) ==
    FilterAt(as, {i \in DOMAIN as :
                     enabled[as[i].type] /\ severityRank(as[i].severity) >= severityRank(minSev)})

\* AlertsPanel: sevRank
sevRank(sev) == CASE sev = "info" -> 0 [] sev = "caution" -> 1 [] sev = "warning" -> 2

\* insert a into the sorted s behind every element that does not sort after it
InsertBySeverity(a, s) ==
    LET p == Cardinality({i \in DOMAIN s : sevRank(s[i].severity) >= sevRank(a.severity)})
    IN SubSeq(s, 1, p) \o <<a>> \o SubSeq(s, p + 1, Len(s))

RECURSIVE SortBySeverity(_)
\* .sort((a, b) => sevRank[b.severity] - sevRank[a.severity]), a stable sort
SortBySeverity(s) ==
    IF s = <<>> THEN <<>>
    ELSE InsertBySeverity(s[Len(s)], SortBySeverity(SubSeq(s, 1, Len(s) - 1)))

\* the list left as filtered, unsorted
filtered_Unsorted(as, enabled, minSev) ==
    FilterAt(as, {i \in DOMAIN as :
                     enabled[as[i].type] /\ sevRank(as[i].severity) >= sevRank(minSev)})

\* AlertsPanel: the memo filtered, of the alerts the panel is given
filtered(as, enabled, minSev) ==
    SortBySeverity(FilterAt(as, {i \in DOMAIN as :
                     enabled[as[i].type] /\ sevRank(as[i].severity) >= sevRank(minSev)}))

\* visibleConflicts: the conflicts of the visible separation alerts, one per
\* key (a Map keeps the place of a key's first insertion and its last value)
visibleConflictsOf(vis) ==
    LET raw == FilterAt(vis, {i \in DOMAIN vis : vis[i].type = "separation" /\ vis[i].data # {}})
        conf(i) == OrElse(raw[i].data, 0)
        firsts == Ascending({i \in DOMAIN raw :
                      \A j \in 1..(i - 1) : conflictKey(conf(j)) # conflictKey(conf(i))})
        lastOf(i) == CHOOSE j \in DOMAIN raw :
                        /\ conflictKey(conf(j)) = conflictKey(conf(i))
                        /\ \A m \in (j + 1)..Len(raw) : conflictKey(conf(m)) # conflictKey(conf(i))
    IN [n \in 1..Len(firsts) |-> conf(lastOf(firsts[n]))]

\* the effect left out
ReconcileSelection_Skip(sel, vc) == sel

\* the effect that keeps the selected conflict valid, run when visibleConflicts
\* changes; sel is {} or {conflict}
ReconcileSelection(sel, vc) ==
    IF sel = {}
    THEN (IF Len(vc) > 0 THEN {vc[1]} ELSE {})
    ELSE IF \E i \in DOMAIN vc : sameConflict(vc[i], OrElse(sel, 0))
         THEN sel
         ELSE (IF Len(vc) > 0 THEN {vc[1]} ELSE {})

\* the most urgent conflict, whatever was selected
SelectedAfterTick_MostUrgent(prev, sepConflicts) ==
    IF Len(sepConflicts) = 0 THEN {} ELSE {sepConflicts[1]}

\* the updater handed to setSelected at the end of recompute
SelectedAfterTick(prev, sepConflicts) ==
    IF Len(sepConflicts) = 0 THEN {}
    ELSE IF prev # {} /\ \E i \in DOMAIN sepConflicts : sameConflict(sepConflicts[i], OrElse(prev, 0))
         THEN prev
         ELSE {sepConflicts[1]}

----------------------------------------------------------------------------
\* Track history

TRAIL_WINDOW_MS == 300000

\* the ids an aircraft of a snapshot can carry
AcIds == 1..32

\* nothing evicted
Evict_Nothing(points, cutoff) == points

\* while (entry.points.length && entry.points[0].ts < cutoff) entry.points.shift()
RECURSIVE Evict(_, _)
Evict(points, cutoff) ==
    IF Len(points) > 0 /\ points[1].ts < cutoff THEN Evict(Tail(points), cutoff) ELSE points

\* the buffer of a sighted aircraft replaced by the new point, and every
\* other buffer cleared
HistoryStep_Replace(map, a, nowMs) ==
    [id \in DOMAIN map |->
        IF id = a.id
        THEN <<[ts |-> nowMs, lat |-> a.lat, lon |-> a.lon,
                alt_ft |-> a.alt_ft, track_deg |-> a.track_deg]>>
        ELSE <<>>]

\* one iteration of the loop over the snapshot: push, evict, map.set
HistoryStep(map, a, nowMs) ==
    LET pushed == Append(map[a.id],
                         [ts |-> nowMs, lat |-> a.lat, lon |-> a.lon,
                          alt_ft |-> a.alt_ft, track_deg |-> a.track_deg])
    IN [map EXCEPT ![a.id] = Evict(pushed, nowMs - TRAIL_WINDOW_MS)]

RECURSIVE HistoryLoop(_, _, _, _)
HistoryLoop(map, ac, k, nowMs) ==
    IF k > Len(ac) THEN map
    ELSE HistoryLoop(HistoryStep(map, ac[k], nowMs), ac, k + 1, nowMs)

\* outTrails
TrailsOf(map, ac) == [n \in 1..Len(ac) |-> [id |-> ac[n].id, points |-> map[ac[n].id]]]

----------------------------------------------------------------------------
\* What the collaborators answer: small catalogues

Ac(id, lat, alt, trk, vr) ==
    [id |-> id, lat |-> lat, lon |-> 0, alt_ft |-> alt, track_deg |-> trk, vr_fpm |-> vr]

\* three aircraft: two fast climbers or descenders, one pair in wake proximity
SnapshotA ==
    <<Ac(1, 0, 10000, {90}, {2600}), Ac(2, 1, 10300, {100}, {}), Ac(3, 30, 5000, {}, {-1600})>>

\* two aircraft: one of the first snapshot, moved, and one at the vertical
\* rate threshold; aircraft 2 and 3 are gone
SnapshotC ==
    <<Ac(1, 2, 10000, {90}, {}), Ac(4, 40, 9000, {}, {1500})>>

\* crowded traffic, level and no two aircraft near each other in height: 32
\* aircraft, the sixth beyond 120 NM of the centre, the other 31 within it,
\* the nearest to the centre last
SnapshotBig ==
    [i \in 1..32 |-> IF i = 6 THEN Ac(32, 130, 40000, {}, {})
                     ELSE IF i = 32 THEN Ac(31, 0, 41000, {}, {})
                     ELSE Ac(i, 40 + i, 1000 * i, {}, {})]

\* eleven aircraft, ten of them within 20 NM of the centre: the three of the
\* first snapshot and eight more, level and far from each other in height
SnapshotD ==
    SnapshotA \o [i \in 1..8 |-> Ac(3 + i, 3 + i, 12000 + 2000 * i, {}, {})]

Airspaces == {"quiet", "crowded", "sparse"}

SnapshotsOf(space) ==
    CASE space = "quiet" -> {SnapshotA, SnapshotC}
      [] space = "crowded" -> {SnapshotBig}
      [] space = "sparse" -> {SnapshotD}

Snapshots == SnapshotsOf(airspace)

Line(id, lats, alt, dt) == Trk(id, [k \in 1..Len(lats) |-> <<lats[k], {alt}>>], dt)

\* what projectTracks resolves to
Projections ==
    { \* no conflict
      <<Line(1, <<0, 0, 0>>, 10000, {60}), Line(2, <<9, 8, 7>>, 10000, {60})>>,
      \* 1-2 first breached at 120 s
      <<Line(1, <<0, 0, 0>>, 10000, {60}), Line(2, <<8, 6, 4>>, 10000, {60}),
        Line(3, <<30, 30, 30>>, 10000, {60})>>,
      \* 1-2 again, the tracks in the other order and closer, at 240 s; 1-3 at 0 s
      <<Line(2, <<9, 6, 3>>, 10500, {120}), Line(1, <<0, 0, 0>>, 10000, {120}),
        Line(3, <<-4, -6, -8>>, 10000, {120})>>,
      \* 2-3 only, at 480 s
      <<Line(1, <<0, 0, 0>>, 10000, {240}), Line(2, <<20, 20, 20>>, 10000, {240}),
        Line(3, <<28, 26, 24>>, 10000, {240})>> }

\* what geometRadarValue resolves to for an aircraft, by the state of the
\* radar service: {} is null (a failed or empty answer)
RadarStates == {"down", "storm"}

RadarValue(state, a) ==
    IF state = "down" THEN {}
    ELSE CASE a.lat = 0 -> {35}
           [] a.lat = 1 -> {}
           [] a.lat = 2 -> {20}
           [] a.lat = 3 -> {5}
           [] a.lat = 30 -> {16}
           [] OTHER -> {0}

\* the DVR frame a loadDvr asks for, and dvrMeta
DvrFrame == 1
DvrOldestTs == 0
DvrIntervalS == 5

----------------------------------------------------------------------------
\* The App

MaxTicks == 2

\* the time between two requests that are let in
TickGapMs == 150000

AlertTypes == {"separation", "weather", "vertical", "wake", "congestion"}
Severities == {"info", "caution", "warning"}

VisibleAlerts == filterAlerts(alerts, enabledTypes, minSeverity)
VisibleConflicts == visibleConflictsOf(VisibleAlerts)

\* RadarMap: isSel of the CPA ring and of the CPA marker of conflict c, sel
\* the selected prop ({} or {conflict})
isSel(c, sel) ==
    IF sel # {} THEN \A x \in sel : c.a_id = x.a_id /\ c.b_id = x.b_id ELSE FALSE

\* RadarMap: showConflict, by the showCpaGeometry setting
showConflict(c, sel, showCpaGeometry) ==
    IF showCpaGeometry = "all" THEN TRUE
    ELSE IF showCpaGeometry = "selected"
         THEN sel # {} /\ \A x \in sel : c.a_id = x.a_id /\ c.b_id = x.b_id
         ELSE TRUE

\* what the panel lists: App hands it visibleAlerts and the same filter state
PanelAlerts == filtered(VisibleAlerts, enabledTypes, minSeverity)

InitApp ==
    /\ aircraft = <<>>
    /\ tracks = <<>>
    /\ trails = <<>>
    /\ history = [i \in AcIds |-> <<>>]
    /\ weatherTimeISO = {}
    /\ alerts = <<>>
    /\ selected = {}
    /\ minSeverity = "info"
    /\ enabledTypes = [t \in AlertTypes |-> TRUE]
    /\ err = {}
    /\ loading = FALSE
    /\ inFlight = FALSE
    /\ mode = "replay"
    /\ selectedAlertId = {}
    /\ now = 0
    /\ runs = {}
    /\ nTicks = 0
    /\ fresh = [aircraft |-> FALSE, trails |-> FALSE, tracks |-> FALSE, alerts |-> FALSE]
    /\ dropped = FALSE
    /\ published = {}
    /\ selHow = "none"

InitIn(space) ==
    /\ InitApp
    /\ airspace = space
    /\ dTracks = <<>>
    /\ dConflicts = <<>>
    /\ dDone = FALSE

Init == InitIn("quiet")

InitCrowded == InitIn("crowded")

\* the guard never lets a request in
Busy_Never == FALSE

\* if (inFlight.current) return;
Busy == inFlight

\* a request that passed the guard: inFlight.current = true, and for load and
\* loadDvr setErr(null), setLoading(true); the first await follows
StartRun(kind, iso) ==
    /\ nTicks < MaxTicks
    /\ inFlight' = TRUE
    /\ err' = IF kind = "live" THEN err ELSE {}
    /\ loading' = IF kind = "live" THEN loading ELSE TRUE
    /\ runs' = runs \cup {[id |-> nTicks + 1, kind |-> kind, mode |-> mode', timeISO |-> iso,
                           pc |-> "fetch",
                           ac |-> <<>>, timeMs |-> 0, projFailed |-> FALSE, sep |-> <<>>,
                           todo |-> <<>>, radar |-> "down", wxOut |-> <<>>,
                           calls |-> 0]}
    /\ nTicks' = nTicks + 1
    /\ now' = now + TickGapMs
    /\ fresh' = [aircraft |-> FALSE, trails |-> FALSE, tracks |-> FALSE, alerts |-> FALSE]
    /\ dropped' = FALSE
    /\ UNCHANGED <<aircraft, tracks, trails, history, weatherTimeISO, alerts, selected,
                   minSeverity, enabledTypes, published, selHow, detectVars, airspace,
                   selectedAlertId>>

\* a request that met the guard set: it returns at once
DropRequest ==
    /\ dropped' = TRUE
    /\ UNCHANGED <<appVars, envVars, nTicks, fresh, published, selHow, detectVars,
                   selectedAlertId>>

Request(kind, iso) == IF Busy THEN DropRequest ELSE StartRun(kind, iso)

\* weatherTimeISO as the closure that makes a request sees it: a handler of the
\* current render sees the state, the callback of an interval timer (and the
\* effect of the mount) what the render that installed it held
MountISO == {}

\* load(), from a handler of the current render or from the replay timer.
\* The three requests leave the mode alone; the conditions on the mode under
\* which the timers run and the controls are shown are left out, so a
\* request of any kind may come in any mode
Load ==
    /\ UNCHANGED mode
    /\ \E viaTimer \in BOOLEAN : Request("load", IF viaTimer THEN MountISO ELSE weatherTimeISO)

\* loadDvr(i), from the slider or from the DVR timer
LoadDvr ==
    /\ UNCHANGED mode
    /\ \E viaTimer \in BOOLEAN :
          Request("loadDvr", IF viaTimer THEN MountISO ELSE weatherTimeISO)

\* the callback of the live poll's interval
LivePoll == UNCHANGED mode /\ Request("live", MountISO)

\* the end of a request that leaves the guard as it is
FinishRun_GuardKept(r) ==
    /\ loading' = IF r.kind = "live" THEN loading ELSE FALSE
    /\ inFlight' = inFlight
    /\ runs' = runs \ {r}

\* the finally block of load, loadDvr and the live poll
FinishRun(r) ==
    /\ loading' = IF r.kind = "live" THEN loading ELSE FALSE
    /\ inFlight' = FALSE
    /\ runs' = runs \ {r}

\* the snapshot fetch of run r resolves to snap: recompute runs up to its first
\* await (setWeatherTimeISO, setAircraft, updateHistoryFromAircraft)
FetchOk ==
    \E r \in runs : \E snap \in Snapshots :
        /\ r.pc = "fetch"
        /\ LET ac == IF r.kind = "live" \/ (r.kind = "load" /\ r.mode = "live")
                     THEN SubSeq(snap, 1, Min2(Len(snap), 60)) ELSE snap
               timeMs == IF r.kind = "loadDvr" \/ (r.kind = "load" /\ r.mode = "dvr")
                         THEN (DvrOldestTs + DvrFrame * DvrIntervalS) * 1000
                         ELSE now
               map == HistoryLoop(history, ac, 1, now)
           IN /\ weatherTimeISO' = {roundToMinutesISO(timeMs, 5)}
              /\ aircraft' = ac
              /\ history' = map
              /\ trails' = TrailsOf(map, ac)
              /\ runs' = (runs \ {r}) \cup
                            {[r EXCEPT !.pc = "project", !.ac = ac, !.timeMs = timeMs]}
        /\ fresh' = [fresh EXCEPT !.aircraft = TRUE, !.trails = TRUE]
        /\ dropped' = FALSE
        /\ UNCHANGED <<tracks, alerts, selected, minSeverity, enabledTypes, err, loading,
                       inFlight, now, nTicks, published, selHow, detectVars, airspace, uiVars>>

\* the alerts dropped with the failed tick
AlertsOnFetchFailure_Cleared == <<>>

\* what the catch of load leaves of the alerts: it calls setErr only
AlertsOnFetchFailure == alerts

\* the snapshot (or metadata) fetch of run r rejects: the catch and the finally
FetchFail ==
    \E r \in runs :
        /\ r.pc = "fetch"
        /\ err' = IF r.kind = "live" THEN err ELSE {"Load failed"}
        /\ alerts' = AlertsOnFetchFailure
        /\ FinishRun(r)
        /\ dropped' = FALSE
        /\ UNCHANGED <<aircraft, tracks, trails, history, weatherTimeISO, selected,
                       minSeverity, enabledTypes, now, nTicks, fresh, published,
                       selHow, detectVars, airspace, uiVars>>

\* the alert selection dropped when the tick published no alert of that id
AlertIdAfterTick_DropMissing(id, all) ==
    IF \E k \in DOMAIN all : id = {all[k].id} THEN id ELSE {}

\* what a tick leaves of selectedAlertId: recompute, load, loadDvr and the
\* live poll make no call of setSelectedAlertId
AlertIdAfterTick(id, all) == id

\* the end of recompute and of the request that called it: setAlerts,
\* setSelected, the finally block, and the selection effect of the render
PublishTick(r, sep, wxOut, projFailed, freshAfter) ==
    LET all == SepAlerts(sep, r.timeMs) \o wxOut \o buildLocalAlerts(r.ac, r.timeMs)
        vc == visibleConflictsOf(filterAlerts(all, enabledTypes, minSeverity))
    IN /\ alerts' = all
       /\ selected' = ReconcileSelection(SelectedAfterTick(selected, sep), vc)
       /\ selectedAlertId' = AlertIdAfterTick(selectedAlertId, all)
       /\ FinishRun(r)
       /\ fresh' = freshAfter
       /\ published' = {[ac |-> r.ac, timeMs |-> r.timeMs, timeISO |-> r.timeISO,
                         radar |-> r.radar, projFailed |-> projFailed, mode |-> r.mode]}
       /\ selHow' = IF selected' = {} THEN "none"
                     ELSE IF selected' = selected THEN "kept" ELSE "fallback"

\* recompute from the answer of projectTracks to its next await, or to its
\* end when buildWeatherAlerts has nothing to sample
AfterProject(r, projected, failed) ==
    LET sep == detectSeparationConflicts(projected, H_NM, V_FT)
        todo == IF r.timeISO = {} THEN <<>> ELSE WeatherCandidates(r.ac)
    IN /\ tracks' = projected
       /\ IF todo = <<>>
          THEN PublishTick([r EXCEPT !.radar = "down"], sep, <<>>, failed,
                           [fresh EXCEPT !.tracks = TRUE, !.alerts = TRUE])
               /\ runs' = runs \ {r}
          ELSE /\ \E radar \in RadarStates :
                     runs' = (runs \ {r}) \cup
                                {[r EXCEPT !.pc = "weather", !.sep = sep, !.projFailed = failed,
                                           !.todo = todo, !.radar = radar, !.calls = 1]}
               /\ fresh' = [fresh EXCEPT !.tracks = TRUE]
               /\ UNCHANGED <<alerts, selected, loading, inFlight, published, selHow,
                              selectedAlertId>>
       /\ dropped' = FALSE
       /\ UNCHANGED <<aircraft, trails, history, weatherTimeISO, minSeverity, enabledTypes,
                      err, now, nTicks, detectVars, airspace, mode>>

\* projectTracks resolves: setTracks(projected)
ProjectOk ==
    \E r \in runs : \E projected \in Projections :
        r.pc = "project" /\ AfterProject(r, projected, FALSE)

\* the tracks of the tick before, kept
ProjectedOnFailure_Stale == tracks

\* what the catch of projectTracks sets tracks and projected to
ProjectedOnFailure == <<>>

\* projectTracks rejects
ProjectFail ==
    \E r \in runs : r.pc = "project" /\ AfterProject(r, ProjectedOnFailure, TRUE)

\* the batch given up at the first null sample
RestOfBatch_AbortOnNull(todo, v) == IF v = {} THEN <<>> ELSE Tail(todo)

\* the candidates the loop goes on to after the sample v of the first of todo:
\* "continue" on null or non-positive, the next iteration otherwise
RestOfBatch(todo, v) == Tail(todo)

\* one geometRadarValue call of the sampling loop returns
SampleReturn ==
    \E r \in runs :
        /\ r.pc = "weather"
        /\ LET a == Head(r.todo)
               v == RadarValue(r.radar, a)
               out == r.wxOut \o WeatherAlertFor(a, v, r.timeMs)
               rest == RestOfBatch(r.todo, v)
           IN IF rest = <<>>
              THEN PublishTick(r, r.sep, out, r.projFailed, [fresh EXCEPT !.alerts = TRUE])
              ELSE /\ runs' = (runs \ {r}) \cup {[r EXCEPT !.todo = rest, !.wxOut = out,
                                                         !.calls = r.calls + 1]}
                   /\ UNCHANGED <<alerts, selected, loading, inFlight, published, selHow, fresh,
                                  selectedAlertId>>
        /\ dropped' = FALSE
        /\ UNCHANGED <<aircraft, tracks, trails, history, weatherTimeISO, minSeverity,
                       enabledTypes, err, now, nTicks, detectVars, airspace, mode>>

\* onSelectConflict(c), c one of the conflicts the panel or the map was given
SelectConflict ==
    \E i \in DOMAIN VisibleConflicts :
        /\ selected # {VisibleConflicts[i]}
        /\ selected' = {VisibleConflicts[i]}
        /\ selHow' = "user"
        /\ UNCHANGED <<aircraft, tracks, trails, history, weatherTimeISO, alerts, minSeverity,
                       enabledTypes, err, loading, inFlight, envVars, nTicks, fresh,
                       dropped, published, detectVars, uiVars>>

Modes == {"demo", "live", "replay", "dvr"}

\* the mode select: setMode(m), and the effect on [mode] of the render that
\* follows, which calls load(0) with the new mode in its closure
SetMode ==
    \E m \in Modes \ {mode} :
        /\ mode' = m
        /\ Request("load", weatherTimeISO)

\* a click on an alert of the panel's list: onSelectAlertId(a.id), and for
\* a separation alert that carries its conflict onSelectConflict(c); the
\* conflict is a visible one, so the selection effect keeps it
SelectAlertInPanel ==
    \E k \in DOMAIN PanelAlerts :
        LET a == PanelAlerts[k]
            picks == a.type = "separation" /\ a.data # {}
        IN /\ selectedAlertId # {a.id} \/ (picks /\ selected # a.data)
           /\ selectedAlertId' = {a.id}
           /\ selected' = IF picks THEN a.data ELSE selected
           /\ selHow' = IF picks /\ selected # a.data THEN "user" ELSE selHow
           /\ UNCHANGED <<aircraft, tracks, trails, history, weatherTimeISO, alerts,
                          minSeverity, enabledTypes, err, loading, inFlight, envVars, nTicks,
                          fresh, dropped, published, detectVars, mode>>

\* a click on an alert marker of the map, which shows the visible alerts
\* that are not separation alerts: onSelectAlertId(a.id)
SelectAlertOnMap ==
    \E k \in DOMAIN VisibleAlerts :
        /\ VisibleAlerts[k].type # "separation"
        /\ selectedAlertId # {VisibleAlerts[k].id}
        /\ selectedAlertId' = {VisibleAlerts[k].id}
        /\ UNCHANGED <<appVars, envVars, ghostVars, detectVars, mode>>

\* "Clear alert selection": onSelectAlertId(null)
ClearAlertSelection ==
    /\ selectedAlertId # {}
    /\ selectedAlertId' = {}
    /\ UNCHANGED <<appVars, envVars, ghostVars, detectVars, mode>>

\* what a filter change leaves of the selection: the effect runs on the new
\* visibleConflicts
AfterFilterChange(enabled, minSev) ==
    /\ selected' = ReconcileSelection(selected,
                       visibleConflictsOf(filterAlerts(alerts, enabled, minSev)))
    /\ selHow' = IF selected' = selected THEN selHow
                  ELSE IF selected' = {} THEN "none" ELSE "fallback"
    /\ UNCHANGED <<aircraft, tracks, trails, history, weatherTimeISO, alerts, err, loading,
                   inFlight, envVars, nTicks, fresh, dropped, published, detectVars,
                   uiVars>>

\* setMinSeverity(s)
SetMinSeverity ==
    \E s \in Severities \ {minSeverity} :
        /\ minSeverity' = s
        /\ UNCHANGED enabledTypes
        /\ AfterFilterChange(enabledTypes, s)

\* a checkbox of the panel: setEnabledTypes(s => ({...s, [t]: checked}))
ToggleType ==
    \E t \in AlertTypes :
        /\ enabledTypes' = [enabledTypes EXCEPT ![t] = ~@]
        /\ UNCHANGED minSeverity
        /\ AfterFilterChange(enabledTypes', minSeverity)

Next ==
    \/ Load
    \/ LoadDvr
    \/ LivePoll
    \/ FetchOk
    \/ FetchFail
    \/ ProjectOk
    \/ ProjectFail
    \/ SampleReturn
    \/ SelectConflict
    \/ SetMinSeverity

----------------------------------------------------------------------------
\* Inputs of the detector: bounded families of ProjectedTrack[]

MaxLen == 3

SeqsUpTo(S, n) == UNION {[1..m -> S] : m \in 0..n}

\* positions <<lat, alt_ft>> relative to a reference track that stays at
\* (0, 0 ft): breach, horizontal breach only, vertical breach only, neither
PairPositions ==
    {<<0, {1000}>>, <<0, {2000}>>, <<3, {0}>>, <<4, {500}>>, <<4, {1000}>>, <<5, {}>>,
     <<5, {2000}>>}

RefPositions == {<<0, {0}>>}

PairInputs ==
    {IF swap THEN <<Trk(2, q, dq), Trk(1, p, dp)>> ELSE <<Trk(1, p, dp), Trk(2, q, dq)>> :
        <<p, dp, q, dq, swap>> \in
            SeqsUpTo(RefPositions, MaxLen) \X {{}, {30}, {90}}
                \X SeqsUpTo(PairPositions, MaxLen) \X {{}, {60}} \X BOOLEAN}

TriplePositions2 == {<<4, {0}>>, <<8, {0}>>}
TriplePositions3 == {<<-4, {500}>>, <<9, {500}>>}

Permute3(t, o) == [i \in 1..3 |-> t[o[i]]]

TripleInputs ==
    {Permute3(<<Trk(1, [k \in 1..MaxLen |-> <<0, {0}>>], dp), Trk(2, q, dq), Trk(3, r, {60})>>, o) :
        <<dp, q, dq, r, o>> \in
            {{}, {30}} \X [1..MaxLen -> TriplePositions2] \X {{20}, {60}}
                \X [1..MaxLen -> TriplePositions3] \X {<<1, 2, 3>>, <<3, 1, 2>>, <<2, 3, 1>>}}

\* the same id twice: the later track replaces the earlier one in byId
DuplicateInputs ==
    {<<Trk(1, [k \in 1..2 |-> <<0, {0}>>], {}), Trk(2, q, {}), Trk(1, r, {})>> :
        <<q, r>> \in [1..2 -> TriplePositions2] \X [1..2 -> TriplePositions2]}

DetectInputs == PairInputs \cup TripleInputs \cup DuplicateInputs

----------------------------------------------------------------------------
\* The detector applied to a drawn input

InitDetect ==
    /\ dTracks \in DetectInputs
    /\ dConflicts = <<>>
    /\ dDone = FALSE
    /\ InitApp
    /\ airspace = "quiet"

Detect ==
    /\ ~dDone
    /\ dConflicts' = detectSeparationConflicts(dTracks, H_NM, V_FT)
    /\ dDone' = TRUE
    /\ UNCHANGED <<dTracks, appVars, uiVars, envVars, ghostVars>>

NextDetect == Detect

vars == <<detectVars, appVars, uiVars, envVars, ghostVars>>

SpecDetect == InitDetect /\ [][NextDetect]_vars

Spec == Init /\ [][Next]_vars

\* the same App over crowded traffic
SpecCrowded == InitCrowded /\ [][Next]_vars

\* run id awaits its call k at pc: the snapshot fetch, the projector, or
\* the k-th radar sample (at most 30 a tick)
Waiting(id, pc, k) == \E r \in runs : r.id = id /\ r.pc = pc /\ r.calls = k

\* no call is awaited for ever.  This is weak fairness of the return of each
\* call, written out: the return (resolve or reject) is enabled exactly
\* while the call is awaited, and taking it ends the wait, so
\* WF_vars(return of the call) is []<>~Waiting
EveryCallReturns ==
    \A id \in 1..MaxTicks, pc \in {"fetch", "project", "weather"}, k \in 0..30 :
        []<>~Waiting(id, pc, k)

\* the App when every call it awaits is answered
SpecFair == Init /\ [][Next]_vars /\ EveryCallReturns

\* the App with the panel's type checkboxes, over one snapshot of moderate
\* traffic, fetched by load alone
InitSparse == InitIn("sparse")

NextFilter ==
    \/ Load
    \/ FetchOk
    \/ FetchFail
    \/ ProjectOk
    \/ ProjectFail
    \/ SampleReturn
    \/ ToggleType
    \/ SetMinSeverity

SpecFilter == InitSparse /\ [][NextFilter]_vars

\* the App with the alert selection of the panel and the map
NextPick ==
    \/ Load
    \/ FetchOk
    \/ FetchFail
    \/ ProjectOk
    \/ ProjectFail
    \/ SampleReturn
    \/ SelectAlertInPanel
    \/ SelectAlertOnMap
    \/ ClearAlertSelection

SpecPick == Init /\ [][NextPick]_vars

\* the App with the mode select
NextMode ==
    \/ SetMode
    \/ Load
    \/ FetchOk
    \/ FetchFail
    \/ ProjectOk
    \/ ProjectFail
    \/ SampleReturn

SpecMode == Init /\ [][NextMode]_vars

----------------------------------------------------------------------------
\* The alerts of one tick as a function of what the tick was given: the
\* snapshot, the projected tracks, the bucket passed to buildWeatherAlerts
\* and the answers of the radar service

\* buildWeatherAlerts run to its end against a radar service in one state
buildWeatherAlerts(ac, timeISO, radar, timeMs) ==
    IF timeISO = {} THEN <<>>
    ELSE LET cs == WeatherCandidates(ac)
         IN FlattenSeq([n \in 1..Len(cs) |->
                          WeatherAlertFor(cs[n], RadarValue(radar, cs[n]), timeMs)])

\* setAlerts([...sepAlerts, ...wxAlerts, ...localAlerts])
TickAlerts(ac, projected, timeISO, radar, timeMs) ==
    SepAlerts(detectSeparationConflicts(projected, H_NM, V_FT), timeMs)
       \o buildWeatherAlerts(ac, timeISO, radar, timeMs)
       \o buildLocalAlerts(ac, timeMs)

\* pairs of aircraft around the wake thresholds: 0, 1.0007 and 2.0013 NM
\* apart, heights 300 to 701 ft apart, headings absent, alike, up to 40
\* degrees apart and on either side of north
WakeHeadings ==
    {<<{}, {}>>, <<{10}, {}>>, <<{25}, {}>>, <<{26}, {}>>, <<{40}, {}>>,
     <<{350}, {10}>>, <<{10}, {350}>>, <<{350}, {20}>>, <<{100}, {90}>>}

WakeSnapshots ==
    {<<Ac(1, 0, 10000, h[1], {}), Ac(2, dlat, 10000 + dalt, h[2], {})>> :
        dlat \in {0, 1, 2}, dalt \in {300, 399, 400, 700, 701}, h \in WakeHeadings}

\* two aircraft far apart with vertical rates around the thresholds
VerticalRates == {{}, {0}, {1499}, {1500}, {-1500}, {2499}, {2500}, {-2600}}

VerticalSnapshots ==
    {<<Ac(1, 0, 10000, {}, v1), Ac(2, 30, 20000, {}, v2)>> : v1, v2 \in VerticalRates}

\* n level aircraft within 20 NM of the centre, 2000 ft above one another,
\* and two beyond: 20.013 NM and 25 NM out
CongestionSnapshot(n) ==
    [i \in 1..(n + 2) |-> IF i <= n THEN Ac(i, i, 2000 * i, {}, {})
                          ELSE IF i = n + 1 THEN Ac(i, 20, 2000 * i, {}, {})
                          ELSE Ac(i, -25, 2000 * i, {}, {1499})]

CongestionCounts == {9, 10, 12, 14, 15, 16}

\* what a tick can be given: <<snapshot, projected tracks, bucket>>
TickInputs ==
    {<<ac, <<>>, {}>> : ac \in WakeSnapshots \cup VerticalSnapshots}
       \cup {<<CongestionSnapshot(n), projected, iso>> :
                n \in CongestionCounts, projected \in Projections \cup {<<>>},
                iso \in {{}, {0}}}

InitAlerts == InitIn("sparse")

\* one tick's alerts from inputs in, radar the state of the radar service
Synthesize ==
    /\ nTicks = 0
    /\ nTicks' = 1
    /\ \E in \in TickInputs, radar \in RadarStates :
          /\ aircraft' = in[1]
          /\ tracks' = in[2]
          /\ weatherTimeISO' = in[3]
          /\ alerts' = TickAlerts(in[1], in[2], in[3], radar, now)
          /\ published' = {[ac |-> in[1], timeMs |-> now, timeISO |-> in[3],
                            radar |-> radar, projFailed |-> FALSE, mode |-> mode]}
    /\ UNCHANGED <<trails, history, selected, minSeverity, enabledTypes, err, loading,
                   inFlight, envVars, fresh, dropped, selHow, detectVars, uiVars>>

NextAlerts == Synthesize

SpecAlerts == InitAlerts /\ [][NextAlerts]_vars

----------------------------------------------------------------------------
\* updateHistoryFromAircraft alone, over successive snapshots and clock readings

MaxUpdates == 4

\* the time between two updates, ms: within the window, and beyond it
UpdateGaps == {100000, 200000, 400000}

UpdateHistory ==
    \E snap \in SnapshotsOf("quiet"), gap \in UpdateGaps :
        /\ nTicks < MaxUpdates
        /\ nTicks' = nTicks + 1
        /\ now' = now + gap
        /\ aircraft' = snap
        /\ history' = HistoryLoop(history, snap, 1, now + gap)
        /\ trails' = TrailsOf(HistoryLoop(history, snap, 1, now + gap), snap)
        /\ UNCHANGED <<tracks, weatherTimeISO, alerts, selected, minSeverity, enabledTypes,
                       err, loading, inFlight, runs, airspace, fresh, dropped, published,
                       selHow, detectVars, uiVars>>

NextHistory == UpdateHistory

SpecHistory == Init /\ [][NextHistory]_vars

----------------------------------------------------------------------------
\* Statements about the detector.  They speak of the tracks by id, as byId
\* holds them, and of the separations sample by sample.

DTrack(id) == ById(dTracks, id)

DIds == {dTracks[i].id : i \in DOMAIN dTracks}

\* the number of paired samples of two tracks
Overlap(x, y) == Min2(Len(DTrack(x).points), Len(DTrack(y).points))

SepH(x, y, k) ==
    haversineNm(DTrack(x).points[k + 1].lat, DTrack(x).points[k + 1].lon,
                DTrack(y).points[k + 1].lat, DTrack(y).points[k + 1].lon)

SepV(x, y, k) ==
    Abs(OrElse(DTrack(x).points[k + 1].alt_ft, 0) - OrElse(DTrack(y).points[k + 1].alt_ft, 0))

BothBreached(x, y, k) == SepH(x, y, k) < Nm(H_NM) /\ SepV(x, y, k) < V_FT

BreachIdx(x, y) == {k \in 0..(Overlap(x, y) - 1) : BothBreached(x, y, k)}

ConflictsOf(x, y) ==
    {i \in DOMAIN dConflicts : {dConflicts[i].a_id, dConflicts[i].b_id} = {x, y}}

\* C6: a Conflict is emitted for a pair of distinct tracks exactly when the two
\* tracks share n >= 2 samples and at some index k < n the horizontal
\* separation is below H and the vertical separation below V at once; nothing
\* is emitted for anything but such a pair.
C6_EmittedIffSimultaneousBreach ==
    dDone =>
        /\ \A x \in DIds : \A y \in DIds \ {x} :
              (ConflictsOf(x, y) # {}) <=> (Overlap(x, y) >= 2 /\ BreachIdx(x, y) # {})
        /\ \A i \in DOMAIN dConflicts :
              /\ dConflicts[i].a_id # dConflicts[i].b_id
              /\ {dConflicts[i].a_id, dConflicts[i].b_id} \subseteq DIds

\* a pair that breaches horizontally at one index and vertically at another,
\* never at once, and yields nothing
C6_Witness ==
    /\ dDone
    /\ dConflicts = <<>>
    /\ \E x \in DIds : \E y \in DIds \ {x} :
          /\ Overlap(x, y) >= 2
          /\ \E k \in 0..(Overlap(x, y) - 1) :
                SepH(x, y, k) < Nm(H_NM) /\ SepV(x, y, k) >= V_FT
          /\ \E k \in 0..(Overlap(x, y) - 1) :
                SepV(x, y, k) < V_FT /\ SepH(x, y, k) >= Nm(H_NM)

\* the time offset between the first two points of a track, when both carry one
OffsetOf(t) ==
    IF Len(t.points) >= 2 /\ t.points[1].t_s # {} /\ t.points[2].t_s # {}
    THEN {OrElse(t.points[2].t_s, 0) - OrElse(t.points[1].t_s, 0)}
    ELSE {}

StepOf(t) == OrElse(OffsetOf(t), DefaultStepS)

FirstBreach(x, y) == CHOOSE k \in BreachIdx(x, y) : \A m \in BreachIdx(x, y) : k <= m

\* C7: first_breach_s of an emitted Conflict is the first index of simultaneous
\* breach times the smaller of the two tracks' steps, a track's step being the
\* offset between its first two points, or 60 s without one.
C7_FirstBreachSeconds ==
    dDone =>
        \A i \in DOMAIN dConflicts :
            LET c == dConflicts[i] IN
            c.first_breach_s =
                FirstBreach(c.a_id, c.b_id) * Min2(StepOf(DTrack(c.a_id)), StepOf(DTrack(c.b_id)))

\* a Conflict that is first breached after index 0, between a track with a
\* given offset and a track without one, the given offset being the larger
C7_Witness ==
    /\ dDone
    /\ \E i \in DOMAIN dConflicts :
          LET c == dConflicts[i] IN
          /\ FirstBreach(c.a_id, c.b_id) > 0
          /\ OffsetOf(DTrack(c.a_id)) # {}
          /\ OffsetOf(DTrack(c.b_id)) = {}
          /\ StepOf(DTrack(c.a_id)) > DefaultStepS
          /\ c.first_breach_s = FirstBreach(c.a_id, c.b_id) * DefaultStepS

\* the first index at which the horizontal separation is least
CpaIdx(x, y) ==
    CHOOSE k \in 0..(Overlap(x, y) - 1) :
        /\ \A m \in 0..(Overlap(x, y) - 1) : SepH(x, y, k) <= SepH(x, y, m)
        /\ \A m \in 0..(k - 1) : SepH(x, y, m) > SepH(x, y, k)

\* C8: min_h_nm of an emitted Conflict is the least horizontal separation over
\* all paired samples, min_v_ft the vertical separation at the first index
\* where it is attained, and the CPA the midpoint of the two positions there.
C8_CpaIsGlobalMinimum ==
    dDone =>
        \A i \in DOMAIN dConflicts :
            LET c == dConflicts[i]
                k == CpaIdx(c.a_id, c.b_id)
            IN /\ c.min_h_nm = SepH(c.a_id, c.b_id, k)
               /\ c.min_v_ft = SepV(c.a_id, c.b_id, k)
               /\ c.cpa_lat_x2 = DTrack(c.a_id).points[k + 1].lat + DTrack(c.b_id).points[k + 1].lat
               /\ c.cpa_lon_x2 = DTrack(c.a_id).points[k + 1].lon + DTrack(c.b_id).points[k + 1].lon

\* a Conflict whose least separation is attained at two indices with different
\* vertical separations, neither of them the index of the first breach
C8_Witness ==
    /\ dDone
    /\ \E i \in DOMAIN dConflicts :
          LET c == dConflicts[i]
              k == CpaIdx(c.a_id, c.b_id)
          IN /\ k # FirstBreach(c.a_id, c.b_id)
             /\ c.min_h_nm < SepH(c.a_id, c.b_id, FirstBreach(c.a_id, c.b_id))
             /\ \E m \in (k + 1)..(Overlap(c.a_id, c.b_id) - 1) :
                   /\ SepH(c.a_id, c.b_id, m) = SepH(c.a_id, c.b_id, k)
                   /\ SepV(c.a_id, c.b_id, m) # SepV(c.a_id, c.b_id, k)

\* C9: the returned list is in ascending order of first_breach_s, so that its
\* first element has the least first_breach_s.
C9_SortedByFirstBreach ==
    dDone =>
        \A i \in DOMAIN dConflicts : \A j \in DOMAIN dConflicts :
            i < j => dConflicts[i].first_breach_s <= dConflicts[j].first_breach_s

\* three conflicts that the pair loops pushed out of order
C9_Witness ==
    /\ dDone
    /\ Len(dConflicts) = 3
    /\ LET pushed == PushedConflicts(dTracks, H_NM, V_FT) IN
          /\ pushed[1].first_breach_s > pushed[2].first_breach_s
          /\ pushed[2].first_breach_s > pushed[3].first_breach_s

----------------------------------------------------------------------------
\* Statements about the tick engine

\* a request was let in by this step
TickStarts == nTicks' # nTicks

\* a request was dropped by this step
RequestDropped == dropped' /\ ~dropped

\* recompute reaches its end in this step and the request that called it returns
TickEnds == \E r \in runs : r.pc # "fetch" /\ runs' = runs \ {r}

AllConflicts ==
    LET sepAlerts == FilterAt(alerts, {i \in DOMAIN alerts : alerts[i].type = "separation"})
    IN [n \in 1..Len(sepAlerts) |-> OrElse(sepAlerts[n].data, 0)]

VisibleKeys == {conflictKey(VisibleConflicts[i]) : i \in DOMAIN VisibleConflicts}

SelKey == conflictKey(OrElse(selected, 0))

\* C1: at most one tick is in flight, the guard is set for as long as it is,
\* no tick starts while one is in flight, and a request dropped meanwhile
\* changes nothing of the App's state or of the tick in flight.
C1_OneTickInFlight ==
    /\ [](Cardinality(runs) <= 1 /\ (runs # {} => inFlight))
    /\ [][(runs # {} => ~TickStarts)
          /\ (RequestDropped => runs # {} /\ UNCHANGED <<appVars, envVars>>)]_vars

\* a request dropped while the tick in flight awaits the weather sampler
C1_Witness ==
    /\ dropped
    /\ \E r \in runs : r.pc = "weather" /\ Len(r.todo) >= 2

\* C2: in every state the exposed aircraft, trails, tracks and alerts come
\* from one tick: the tick in progress has written all of them or none.
C2_TickAtomic ==
    /\ fresh.aircraft = fresh.trails
    /\ fresh.aircraft = fresh.tracks
    /\ fresh.tracks = fresh.alerts

\* the keys of the visible conflicts of the alerts al under the filter en, ms
VisibleKeysOf(al, en, ms) ==
    LET vc == visibleConflictsOf(filterAlerts(al, en, ms))
    IN {conflictKey(vc[i]) : i \in DOMAIN vc}

\* sel is what the selection falls back to among the alerts al under en, ms
IsMostUrgentOf(sel, al, en, ms) ==
    LET vc == visibleConflictsOf(filterAlerts(al, en, ms))
    IN /\ sel = (IF Len(vc) = 0 THEN {} ELSE {vc[1]})
       /\ \A i \in DOMAIN vc : vc[1].first_breach_s <= vc[i].first_breach_s

\* C3: a tick whose visible conflict set holds the key of the conflict that
\* was selected when the tick published leaves a conflict of that key selected.
C3_SelectionStable ==
    [][\A al \in {alerts'}, en \in {enabledTypes'}, ms \in {minSeverity'}, sel \in {selected'} :
          (TickEnds /\ selected # {} /\ SelKey \in VisibleKeysOf(al, en, ms))
             => (sel # {} /\ conflictKey(OrElse(sel, 0)) = SelKey)]_vars

\* the selection kept by a tick whose visible set opens with another, more
\* urgent conflict
C3_Witness ==
    /\ selHow = "kept"
    /\ selected # {}
    /\ runs = {}
    /\ Len(VisibleConflicts) >= 2
    /\ conflictKey(VisibleConflicts[1]) # SelKey
    /\ \E i \in DOMAIN VisibleConflicts :
          /\ conflictKey(VisibleConflicts[i]) = SelKey
          /\ VisibleConflicts[1].first_breach_s < VisibleConflicts[i].first_breach_s

\* C4: nothing is selected exactly when no conflict is visible, and the key of
\* a selected conflict is visible; a step after which the key selected before
\* is not visible (or before which nothing was selected) leaves the first
\* visible conflict selected, which has the least first_breach_s of the
\* visible ones, or nothing when none is visible.
C4_SelectionFallback ==
    /\ []((selected = {} <=> Len(VisibleConflicts) = 0)
          /\ (selected # {} => SelKey \in VisibleKeys))
    /\ [][\A al \in {alerts'}, en \in {enabledTypes'}, ms \in {minSeverity'}, sel \in {selected'} :
             (selected = {} \/ SelKey \notin VisibleKeysOf(al, en, ms))
                => IsMostUrgentOf(sel, al, en, ms)]_vars

\* a selection that fell back because the filter hides the more urgent
\* conflict of the tick
C4_Witness ==
    /\ selHow = "fallback"
    /\ selected # {}
    /\ minSeverity # "info"
    /\ \E i \in DOMAIN AllConflicts :
          /\ conflictKey(AllConflicts[i]) \notin VisibleKeys
          /\ AllConflicts[i].first_breach_s > OrElse(selected, 0).first_breach_s

\* C5: the selected Conflict is a record of the conflict set of the tick that
\* last published, not one retained from a tick before.
C5_SelectedIsFreshRecord ==
    selected # {} => \E i \in DOMAIN AllConflicts : AllConflicts[i] = OrElse(selected, 0)

\* the weather alerts of a tick given the bucket timeISO, the snapshot ac and
\* the radar service in the state radar
WeatherAlertsOfTick(p) ==
    IF p.timeISO = {} THEN <<>>
    ELSE LET cands == WeatherCandidates(p.ac)
         IN FlattenSeq([n \in 1..Len(cands) |->
                WeatherAlertFor(cands[n], RadarValue(p.radar, cands[n]), p.timeMs)])

Published == OrElse(published, 0)

\* C10: once projectTracks has failed in a tick the exposed tracks are empty,
\* and the alerts the tick publishes hold no separation alert and are the
\* weather alerts of its snapshot followed by its local (vertical,
\* congestion, wake) alerts.
C10_ProjectorFailure ==
    /\ \A r \in runs : (r.pc = "weather" /\ r.projFailed) => tracks = <<>>
    /\ (published # {} /\ Published.projFailed) =>
          /\ (\A r \in runs : r.pc = "fetch") => tracks = <<>>
          /\ \A i \in DOMAIN alerts : alerts[i].type # "separation"
          /\ alerts = WeatherAlertsOfTick(Published)
                        \o buildLocalAlerts(Published.ac, Published.timeMs)

\* a second tick whose projector failed, with vertical, wake and weather alerts
C10_Witness ==
    /\ published # {}
    /\ Published.projFailed
    /\ runs = {}
    /\ nTicks >= 2
    /\ aircraft # <<>>
    /\ tracks = <<>>
    /\ \A t \in {"vertical", "wake", "weather"} : \E i \in DOMAIN alerts : alerts[i].type = t

\* the tick that ends in this step had its projectTracks call fail
FailedTickEnds ==
    /\ TickEnds
    /\ published' # {}
    /\ OrElse(published', [projFailed |-> FALSE]).projFailed

\* C11: a tick whose projector call failed does not clear the conflict
\* selection retained from the tick before.
C11_SelectionSurvivesProjectorFailure ==
    [][(FailedTickEnds /\ selected # {}) => selected' = selected]_vars

\* the fetch of the tick in flight rejects in this step: the tick fails
TickFails == \E r \in runs : r.pc = "fetch" /\ runs' = runs \ {r}

\* C12: a tick whose fetch raises ends inside the request that started it
\* (the guard is released, nothing stays in flight) and leaves the exposed
\* aircraft, tracks, trails, trail buffers, alerts, time bucket and selection
\* as they were; only err and loading may change.
C12_FailedTickLeavesOutput ==
    [][TickFails =>
          /\ UNCHANGED <<aircraft, tracks, trails, history, alerts, selected, weatherTimeISO,
                         minSeverity, enabledTypes>>
          /\ runs' = {}
          /\ ~inFlight']_vars

\* a failed second tick, the alerts and the selection of the first still there
C12_Witness ==
    /\ err = {"Load failed"}
    /\ runs = {}
    /\ nTicks >= 2
    /\ selected # {}
    /\ aircraft # <<>>
    /\ tracks # <<>>
    /\ \E i \in DOMAIN alerts : alerts[i].type = "separation"

WeatherAlertsIn(al) == FilterAt(al, {i \in DOMAIN al : al[i].type = "weather"})

\* the weather alerts of the candidates cs under the radar state radar
WeatherAlertsFor(cs, radar, timeMs) ==
    FlattenSeq([n \in 1..Len(cs) |-> WeatherAlertFor(cs[n], RadarValue(radar, cs[n]), timeMs)])

\* C13: a null sample of one candidate leaves the batch going: while a tick
\* samples, the candidates still to sample are all those behind the ones
\* sampled and the alerts collected are those of every candidate sampled with
\* a positive value; the alerts the tick publishes hold the weather alert of
\* every candidate with a positive sample, whatever failed before it.
C13_SamplerFailureIsNoSignal ==
    /\ \A r \in runs : r.pc = "weather" =>
          LET cands == WeatherCandidates(r.ac)
              done == Len(cands) - Len(r.todo)
          IN /\ done >= 0
             /\ r.todo # <<>>
             /\ r.todo = SubSeq(cands, done + 1, Len(cands))
             /\ r.wxOut = WeatherAlertsFor(SubSeq(cands, 1, done), r.radar, r.timeMs)
    /\ (published # {} /\ Published.timeISO # {} /\ (\A r \in runs : r.pc = "fetch")) =>
          WeatherAlertsIn(alerts) =
             WeatherAlertsFor(WeatherCandidates(Published.ac), Published.radar, Published.timeMs)

\* a completed tick with a weather alert for a candidate sampled after one
\* whose sample failed
C13_Witness ==
    /\ runs = {}
    /\ published # {}
    /\ LET cands == WeatherCandidates(Published.ac)
       IN \E i, j \in DOMAIN cands :
             /\ i < j
             /\ Published.timeISO # {}
             /\ RadarValue(Published.radar, cands[i]) = {}
             /\ \E k \in DOMAIN alerts :
                   alerts[k].type = "weather" /\ alerts[k].involvedAircraftIds = <<cands[j].id>>

\* the runs with a geometRadarValue call outstanding
Sampling == {r \in runs : r.pc = "weather"}

\* C14: no tick issues more than 30 sampler calls, and at most one sampler
\* call is outstanding at any time, of one tick only.
C14_SamplingBoundedSequential ==
    /\ \A r \in runs : r.calls <= 30 /\ (r.pc = "weather" => r.calls >= 1)
    /\ Cardinality(Sampling) <= 1
    /\ Cardinality(runs) <= 1

\* the thirtieth and last call of a tick over 31 aircraft within 120 NM is
\* outstanding, and a request made meanwhile was dropped
C14_Witness ==
    /\ dropped
    /\ \E r \in Sampling :
          /\ r.calls = 30
          /\ Len(r.todo) = 1
          /\ Len(WeatherCandidates_Uncapped(r.ac)) > 30

DistanceToCentre(a) == haversineNm(CenterLat, CenterLon, a.lat, a.lon)

\* C15: of the aircraft of the snapshot within 120 NM of the centre, none
\* left unsampled by a tick is closer to the centre than one it samples.
C15_NearestAreSampled ==
    \A r \in Sampling :
        r.calls = 1 =>
            \A i \in DOMAIN r.ac :
                (DistanceToCentre(r.ac[i]) <= Nm(120) /\ r.ac[i] \notin Range(r.todo))
                    => \A c \in Range(r.todo) : DistanceToCentre(c) <= DistanceToCentre(r.ac[i])

\* the time bucket of a tick with timestamp timeMs
BucketOf(timeMs) == {roundToMinutesISO(timeMs, 5)}

\* C16: a tick hands the sampler its own time bucket: a tick that samples does
\* so with the bucket of its timestamp, and no tick with candidates goes
\* without a bucket.
C16_SampledAtOwnBucket ==
    /\ \A r \in Sampling : r.timeISO = BucketOf(r.timeMs)
    /\ (published # {} /\ WeatherCandidates(Published.ac) # <<>>) =>
          Published.timeISO = BucketOf(Published.timeMs)

----------------------------------------------------------------------------
\* Statements about the track history

\* the TrailPoint of aircraft a sighted at ts
TrailPointOf(a, ts) ==
    [ts |-> ts, lat |-> a.lat, lon |-> a.lon, alt_ft |-> a.alt_ft, track_deg |-> a.track_deg]

\* the points of buf not older than cutoff
InWindow(buf, cutoff) == FilterAt(buf, {i \in DOMAIN buf : buf[i].ts >= cutoff})

\* C17: an update appends one TrailPoint, that of the snapshot's aircraft at
\* the time of the update, to the buffer of every aircraft of the snapshot and
\* then drops from that buffer the points older than the time minus the
\* window; the buffer of every other aircraft is what it was.
C17_AppendEvictOnly ==
    [][\A h2 \in {history'}, ac2 \in {aircraft'}, t2 \in {now'} :
          \A id \in AcIds :
              IF nTicks' # nTicks /\ \E i \in DOMAIN ac2 : ac2[i].id = id
              THEN \E i \in DOMAIN ac2 :
                      /\ ac2[i].id = id
                      /\ h2[id] = InWindow(history[id] \o <<TrailPointOf(ac2[i], t2)>>,
                                           t2 - TRAIL_WINDOW_MS)
              ELSE h2[id] = history[id]]_vars

\* aircraft 1, in every snapshot, has lost points to the window, while
\* aircraft 2, absent from the latest snapshot, keeps points older than it
C17_Witness ==
    /\ Len(history[1]) >= 2
    /\ Len(history[1]) < nTicks
    /\ \A i \in DOMAIN aircraft : aircraft[i].id # 2
    /\ history[2] # <<>>
    /\ history[2][1].ts < now - TRAIL_WINDOW_MS

\* C18: the timestamps of every trail buffer are non-decreasing, and the
\* buffer of every aircraft of the latest snapshot holds only points not
\* older than the time of the latest update minus five minutes, the newest
\* of them of that update.
C18_TrailsOrderedAndWindowed ==
    /\ \A id \in AcIds : \A i, j \in DOMAIN history[id] :
          i < j => history[id][i].ts <= history[id][j].ts
    /\ \A n \in DOMAIN aircraft :
          LET buf == history[aircraft[n].id]
          IN /\ buf # <<>>
             /\ buf[Len(buf)] = TrailPointOf(aircraft[n], now)
             /\ \A i \in DOMAIN buf : buf[i].ts >= now - 300000
             /\ trails[n] = [id |-> aircraft[n].id, points |-> buf]

\* a buffer of an aircraft of the latest snapshot, two points or more in it,
\* from which the window has taken points
C18_Witness ==
    /\ nTicks >= 3
    /\ \E n \in DOMAIN aircraft :
          /\ aircraft[n].id = 1
          /\ Len(history[1]) >= 2
          /\ Len(history[1]) < nTicks
          /\ history[1][1].ts < now

----------------------------------------------------------------------------
\* Statements about the separation alerts

SeparationAlertsIn(al) == FilterAt(al, {i \in DOMAIN al : al[i].type = "separation"})

\* the time bucket of the tick that made the alert x
AlertBucket(x) == roundToMinutesISO(x.time_s * 1000, 5)

\* C19: the id of a separation alert is a function of the unordered pair key
\* and of the time bucket of its tick: the alerts that two successive ticks in
\* one bucket make for one pair have the same id.
C19_SeparationIdByKeyAndBucket ==
    [][\A al2 \in {SeparationAlertsIn(alerts')} :
          \A i \in DOMAIN SeparationAlertsIn(alerts), j \in DOMAIN al2 :
              LET x == SeparationAlertsIn(alerts)[i]
                  y == al2[j]
              IN (/\ sameConflict(OrElse(x.data, 0), OrElse(y.data, 0))
                  /\ AlertBucket(x) = AlertBucket(y))
                     => x.id = y.id]_vars

NoTwoWithSameKey(cs) ==
    \A i, j \in DOMAIN cs : i # j => conflictKey(cs[i]) # conflictKey(cs[j])

\* Conflict(B, A) for Conflict(A, B)
Swapped(c) == [c EXCEPT !.a_id = c.b_id, !.b_id = c.a_id]

\* the separation alerts of the detected conflicts, and the conflicts visible
\* among the alerts al with every type enabled and no severity floor
DetectedAlerts == SepAlerts(dConflicts, 0)

VisibleAmong(al) ==
    visibleConflictsOf(filterAlerts(al, [t \in AlertTypes |-> TRUE], "info"))

\* C20: a conflict and the same conflict with its ids swapped have one key;
\* the detector's output, its separation alerts and the conflicts visible
\* among them hold no two entries with one key, and the visible conflicts hold
\* none even of alerts that carry a pair twice, once in each order.
C20_OnePerUnorderedPair ==
    dDone =>
       /\ \A i \in DOMAIN dConflicts :
             /\ dConflicts[i].a_id # dConflicts[i].b_id
             /\ sameConflict(dConflicts[i], Swapped(dConflicts[i]))
       /\ NoTwoWithSameKey(dConflicts)
       /\ Len(DetectedAlerts) = Len(dConflicts)
       /\ \A i, j \in DOMAIN DetectedAlerts : i # j => DetectedAlerts[i].id # DetectedAlerts[j].id
       /\ VisibleAmong(DetectedAlerts) = dConflicts
       /\ LET twice == DetectedAlerts
                          \o SepAlerts([n \in 1..Len(dConflicts) |-> Swapped(dConflicts[n])], 0)
          IN /\ NoTwoWithSameKey(VisibleAmong(twice))
             /\ Len(VisibleAmong(twice)) = Len(dConflicts)

\* tracks that carry an id twice, and a conflict detected among them
C20_Witness ==
    /\ dDone
    /\ \E i, j \in DOMAIN dTracks : i # j /\ dTracks[i].id = dTracks[j].id
    /\ dConflicts # <<>>

----------------------------------------------------------------------------
\* Statements about the filters, the panel and the map

Shown(a) == enabledTypes[a.type] /\ severityRank(a.severity) >= severityRank(minSeverity)

\* C21: an alert is visible exactly when its kind is enabled and its severity
\* ranks at or above the minimum (info < caution < warning); so for the
\* App's visible alerts and for the list of the panel, whatever filter
\* changes and ticks came before.
C21_VisibleIffEnabledAndSevere ==
    /\ Range(VisibleAlerts) = {a \in Range(alerts) : Shown(a)}
    /\ Range(PanelAlerts) = {a \in Range(alerts) : Shown(a)}
    /\ Len(PanelAlerts) = Len(VisibleAlerts)
    /\ Len(VisibleAlerts) = Cardinality({i \in DOMAIN alerts : Shown(alerts[i])})

\* after two ticks and changes of both filters: one alert hidden by its
\* kind, one by its severity, one shown
C21_Witness ==
    /\ nTicks = 2 /\ runs = {}
    /\ minSeverity = "caution"
    /\ \E a, b, c \in Range(alerts) :
          /\ ~enabledTypes[a.type] /\ a.severity = "warning"
          /\ enabledTypes[b.type] /\ b.severity = "info"
          /\ Shown(c)

----------------------------------------------------------------------------
\* Statements about the alerts of a tick

OfType(al, t) == FilterAt(al, {i \in DOMAIN al : al[i].type = t})

\* the heading difference in (-180, 180]
WrappedDiff(x) == CHOOSE y \in -179..180 : (x - y) % 360 = 0

HeadingOf(a) == OrElse(a.track_deg, 0)

WakeClose(A, B) ==
    /\ haversineNm(A.lat, A.lon, B.lat, B.lon) <= Nm(2)
    /\ Abs(A.alt_ft - B.alt_ft) <= 700
    /\ Abs(WrappedDiff(HeadingOf(A) - HeadingOf(B))) <= 25

WakeSeverity(A, B) ==
    IF haversineNm(A.lat, A.lon, B.lat, B.lon) < Nm(1) /\ Abs(A.alt_ft - B.alt_ft) < 400
    THEN "warning" ELSE "caution"

\* C22: the tick's alerts hold one wake alert for a pair of the snapshot
\* exactly when the two are at most 2.0 NM apart, at most 700 ft apart in
\* height and their headings (an absent one read as 0) differ by at most 25
\* degrees after wrapping; it is a warning below 1.0 NM and 400 ft, a
\* caution otherwise; there is no other wake alert.
C22_WakeIffCloseAndAligned ==
    nTicks = 1 =>
       LET wk == OfType(alerts, "wake")
           pairs == {p \in (DOMAIN aircraft) \X (DOMAIN aircraft) : p[1] < p[2]}
           of(p) == {k \in DOMAIN wk :
                        wk[k].involvedAircraftIds = <<aircraft[p[1]].id, aircraft[p[2]].id>>}
       IN /\ \A p \in pairs :
                /\ Cardinality(of(p)) = IF WakeClose(aircraft[p[1]], aircraft[p[2]]) THEN 1 ELSE 0
                /\ \A k \in of(p) :
                      wk[k].severity = WakeSeverity(aircraft[p[1]], aircraft[p[2]])
          /\ \A k \in DOMAIN wk : \E p \in pairs : k \in of(p)

\* headings 350 and 10, 20 degrees apart across north, 1.0007 NM and 300 ft
\* apart: a caution
C22_Witness ==
    /\ nTicks = 1
    /\ Len(aircraft) = 2
    /\ aircraft[1].track_deg = {350} /\ aircraft[2].track_deg = {10}
    /\ aircraft[2].lat = 1 /\ aircraft[2].alt_ft = 10300
    /\ \E k \in DOMAIN alerts : alerts[k].type = "wake" /\ alerts[k].severity = "caution"

FastVertical(a) == a.vr_fpm # {} /\ \E v \in a.vr_fpm : Abs(v) >= 1500

\* C24: the tick's alerts hold exactly one vertical alert for each aircraft
\* of the snapshot whose vertical rate is present and at least 1500 ft/min in
\* absolute value, a warning from 2500 and a caution below, and none for an
\* aircraft whose rate is absent or smaller.
C24_VerticalPerFastAircraft ==
    nTicks = 1 =>
       LET vt == OfType(alerts, "vertical")
           of(i) == {k \in DOMAIN vt : vt[k].involvedAircraftIds = <<aircraft[i].id>>}
       IN /\ \A i \in DOMAIN aircraft :
                /\ Cardinality(of(i)) = IF FastVertical(aircraft[i]) THEN 1 ELSE 0
                /\ \A k \in of(i) : \A v \in aircraft[i].vr_fpm :
                      vt[k].severity = IF Abs(v) >= 2500 THEN "warning" ELSE "caution"
          /\ \A k \in DOMAIN vt : \E i \in DOMAIN aircraft : k \in of(i)

\* a descent at 2600 ft/min beside an aircraft without a rate: one warning
C24_Witness ==
    /\ nTicks = 1
    /\ Len(aircraft) = 2
    /\ aircraft[1].vr_fpm = {-2600} /\ aircraft[2].vr_fpm = {}
    /\ Len(OfType(alerts, "vertical")) = 1
    /\ OfType(alerts, "vertical")[1].severity = "warning"

\* c: the aircraft of the snapshot within 20 NM of the reference point
CountWithin20 ==
    Cardinality({i \in DOMAIN aircraft :
        haversineNm(CenterLat, CenterLon, aircraft[i].lat, aircraft[i].lon) <= Nm(20)})

CongestionByCount ==
    LET cg == OfType(alerts, "congestion")
    IN /\ Len(cg) = IF CountWithin20 >= 10 THEN 1 ELSE 0
       /\ \A k \in DOMAIN cg :
             cg[k].severity = IF CountWithin20 >= 15 THEN "warning" ELSE "caution"

\* twelve aircraft within 20 NM, no two of the snapshot within 5 NM and
\* 1000 ft of each other, no conflict detected, no fast climb or descent
CalmDozen ==
    /\ CountWithin20 = 12
    /\ \A i, j \in DOMAIN aircraft :
          i # j => \/ haversineNm(aircraft[i].lat, aircraft[i].lon,
                                  aircraft[j].lat, aircraft[j].lon) >= Nm(H_NM)
                   \/ Abs(aircraft[i].alt_ft - aircraft[j].alt_ft) >= V_FT
    /\ detectSeparationConflicts(tracks, H_NM, V_FT) = <<>>
    /\ \A i \in DOMAIN aircraft : ~FastVertical(aircraft[i])

OnlyOneCongestionCaution ==
    /\ Len(alerts) = 1
    /\ alerts[1].type = "congestion"
    /\ alerts[1].severity = "caution"

\* the radar service gave no aircraft of the tick a positive intensity, or
\* the tick sampled none
NoWeatherSignal ==
    \A p \in published :
        \/ p.timeISO = {}
        \/ \A i \in DOMAIN aircraft : \A v \in RadarValue(p.radar, aircraft[i]) : v <= 0

\* C23: with c the aircraft within 20 NM of the reference point, the tick's
\* alerts hold no congestion alert when c < 10 and exactly one when c >= 10,
\* a caution below 15 and a warning from 15; with twelve such aircraft, none
\* in separation breach, none climbing or descending at 1500 ft/min or more,
\* and no positive weather sample, the tick's alerts are that one caution.
C23_CongestionByCount ==
    nTicks = 1 =>
       /\ CongestionByCount
       /\ (CalmDozen /\ NoWeatherSignal) => OnlyOneCongestionCaution

\* C23 as stated: the same without the condition on the weather samples.
C23_AsStated ==
    nTicks = 1 =>
       /\ CongestionByCount
       /\ CalmDozen => OnlyOneCongestionCaution

\* twelve aircraft within 20 NM, tracks projected without a conflict, the
\* radar service down: one caution and nothing else
C23_Witness ==
    /\ nTicks = 1
    /\ CalmDozen
    /\ tracks # <<>>
    /\ weatherTimeISO # {}
    /\ OnlyOneCongestionCaution

\* C25: every alert of a tick, of whichever kind, carries one or two
\* involved aircraft ids.
C25_OneOrTwoInvolved ==
    nTicks = 1 => \A k \in DOMAIN alerts : Len(alerts[k].involvedAircraftIds) \in {1, 2}

PlaceIn(s, a) == CHOOSE k \in DOMAIN s : s[k] = a

\* C26: the list of the panel is ranked by severity: no alert is listed
\* before one of higher severity, and alerts of equal severity stand in the
\* order in which the panel was given them.
C26_PanelRankedStable ==
    LET pa == PanelAlerts
        va == VisibleAlerts
    IN \A i, j \in DOMAIN pa :
          i < j =>
             /\ sevRank(pa[i].severity) >= sevRank(pa[j].severity)
             /\ pa[i].severity = pa[j].severity => PlaceIn(va, pa[i]) < PlaceIn(va, pa[j])

\* the panel moved an alert up past a lower one and lists two of one severity
C26_Witness ==
    /\ PanelAlerts # VisibleAlerts
    /\ Len(PanelAlerts) >= 3
    /\ \E i, j \in DOMAIN PanelAlerts :
          /\ i < j
          /\ PanelAlerts[i].severity = PanelAlerts[j].severity
          /\ PanelAlerts[i].type # PanelAlerts[j].type

\* C27: the map goes by the unordered pair: a visible conflict is drawn as
\* the selected one, and shown when only the selected geometry is shown,
\* exactly when its key is the key of the selected conflict, in whichever
\* order the two records name the aircraft.
C27_MapSelectsByKey ==
    selected # {} =>
       \A i \in DOMAIN VisibleConflicts : \A x \in selected :
           LET c == VisibleConflicts[i]
           IN /\ isSel(c, selected) <=> sameConflict(c, x)
              /\ showConflict(c, selected, "selected") <=> sameConflict(c, x)

----------------------------------------------------------------------------
\* Statements about the guard, the alert selection and the mode

\* a request returns in this step, at the end of its tick or in its catch
RunEnds == \E r \in runs : runs' = runs \ {r}

\* C28: the guard is released in the step in which a tick ends, completed or
\* failed, and is never left set without a tick in flight; when every call
\* the tick awaits is answered, a guard that is set is released in the end,
\* and a request is dropped only while a tick is in flight.
C28_GuardReleased ==
    /\ [](runs = {} => ~inFlight)
    /\ [][(RunEnds => ~inFlight') /\ (RequestDropped => runs # {})]_vars
    /\ (inFlight ~> ~inFlight)

\* a second request let in after the first tick failed at its fetch
C28_Witness ==
    /\ nTicks = 2
    /\ runs # {}
    /\ inFlight
    /\ published = {}
    /\ err # {}

\* a step of a tick: its start, the return of a call it awaits, its end
TickStep == runs' # runs

\* C29: no step of a tick changes the selected alert id; it changes only by
\* a click on a visible alert, which sets it to that alert's id, or by the
\* clear button, which sets it to none, and such a step is no step of a tick.
C29_AlertSelectionIsTheUsers ==
    [][/\ TickStep => selectedAlertId' = selectedAlertId
       /\ selectedAlertId' # selectedAlertId =>
             /\ UNCHANGED <<alerts, runs, nTicks>>
             /\ \A va \in {VisibleAlerts} :
                   \/ selectedAlertId' = {}
                   \/ \E k \in DOMAIN va : selectedAlertId' = {va[k].id}]_vars

\* an alert was picked, a later tick published other alerts, none with the
\* id picked, and the id is still the selected one
C29_Witness ==
    /\ nTicks = 2
    /\ runs = {}
    /\ alerts # <<>>
    /\ selectedAlertId # {}
    /\ \A k \in DOMAIN alerts : selectedAlertId # {alerts[k].id}

\* C30: a mode change while a tick is in flight starts nothing: its load is
\* dropped and the App's state and the tick in flight stay as they are; a
\* run keeps the mode it was started in, and a run of the new mode appears
\* only with a request that is let in.
C30_ModeChangeLoadDropped ==
    [][/\ (mode' # mode /\ runs # {}) =>
             /\ dropped'
             /\ UNCHANGED <<appVars, runs, nTicks, published>>
       /\ \A q \in runs' :
             \/ \E r \in runs : r.id = q.id /\ r.mode = q.mode
             \/ nTicks' = nTicks + 1 /\ runs = {} /\ q.id = nTicks' /\ q.mode = mode']_vars

\* the only tick ever started has published, in a mode that is no longer
\* the App's
C30_Witness ==
    /\ nTicks = 1
    /\ runs = {}
    /\ \E p \in published : p.mode # mode /\ p.ac # <<>>
    /\ alerts # <<>>

====
